---- MODULE Spec2Model ----
(***************************************************************************)
(* Model of src/Oil Debris Test/src/main.cpp, an ESP32 firmware made of    *)
(*   - setup()          : Bootstrap, run once by the Arduino loop task,    *)
(*   - task_sensor      : the Sampler task (priority 4),                   *)
(*   - task_webserver   : the Server task (priority 2) and the three       *)
(*                        handlers it dispatches to,                       *)
(*   - v_fine, v_coarse : two Share<uint8_t> cells, initial value 0.       *)
(* Every statement of the two tasks that touches shared state is one       *)
(* action; statements that touch only locals are merged into the step of   *)
(* the shared access next to them.  A vTaskDelay blocks the task until the *)
(* kernel's tick wakes it (SensorWake, WebWake, SetupWake).                *)
(***************************************************************************)
EXTENDS Integers, Sequences, FiniteSets, TLC

VARIABLES
    cores,      \* number of CPU cores the kernel runs the tasks on
    spc,        \* position of setup() / loop() in the Arduino loop task
    Serial,     \* TRUE once Serial.begin has run
    pins,       \* the pins configured as INPUT
    wifi,       \* "off" | "ap" (access point up) | "connecting" (station,
                \* WiFi.begin called) | "sta" (station, WL_CONNECTED)
    tasks,      \* tasks made by xTaskCreate: function name -> priority
    v_fine,     \* Share<uint8_t> v_fine
    v_coarse,   \* Share<uint8_t> v_coarse
    sens_pc,    \* position of task_sensor
    voltage1,   \* task_sensor local (float), held in units of 5/4095 V
    voltage2,   \* task_sensor local (float), held in units of 5/4095 V
    web_pc,     \* position of task_webserver (handlers included)
    routes,     \* route table of the WebServer: path -> handler
    notFound,   \* handler installed by onNotFound, or "none"
    listening,  \* TRUE once server.begin has run
    pending,    \* number of client connections waiting at the listener
    cur,        \* path of the request being handled, or NoReq
    IMU_str,    \* handle_Sensor local: the body being composed
    index,      \* handle_Sensor local: loop counter (uint8_t)
    response,   \* the response server.send wrote for cur, or NoResponse
    sent,       \* number of server.send calls made for cur
    \* history variables: they record what happened, no action reads them
    \* to decide what the program does
    rows,       \* the (fine, coarse) values got for the rows of IMU_str
    lastPut,    \* <<argument of the last completed v_fine.put(), the same for
                \*   v_coarse>>, <<0, 0>> (the initial values) before any put
    gotFine,    \* <<value returned by the last v_fine.get(), lastPut[1] at
                \*   that moment>>
    gotCoarse,  \* the same for v_coarse.get() and lastPut[2]
    hEntry,     \* lastPut at the entry of handle_Sensor
    hPub,       \* <<fine, coarse>> last published during this handle_Sensor
    hCycles,    \* Sampler cycles that put during this handle_Sensor
    hWakes,     \* Sampler cycles under way at the entry of this handle_Sensor
                \* or started by a delay expiry during it
    cycSeen,    \* the current Sampler cycle is counted in hCycles
    puts,       \* <<puts to v_fine, puts to v_coarse>> of this Sampler cycle
    failed,     \* <<the analogRead of the fine channel of this Sampler cycle
                \*   failed, the same for the coarse channel>>
    everPut,    \* <<a put to v_fine was made, the same for v_coarse>>
    hAge,       \* <<number of the Sampler cycle that put the value v_fine
                \*   holds, the same for v_coarse>>, counted from the older
                \*   of the two at the entry of this handle_Sensor
    rowAge      \* hAge[1] at the last v_fine.get() and hAge[2] at the last
                \* v_coarse.get() of this handle_Sensor

progVars == <<cores, spc, Serial, pins, wifi, tasks, v_fine, v_coarse,
              sens_pc, voltage1, voltage2, web_pc, routes, notFound,
              listening, pending, cur, IMU_str, index, response,
              sent>>
histVars == <<rows, lastPut, gotFine, gotCoarse, hEntry, hPub, hCycles, hWakes,
              cycSeen, puts, failed, everPut, hAge, rowAge>>
vars == <<progVars, histVars>>

----------------------------------------------------------------------------
(* Bounds of the model *)

\* length of the listener's backlog of accepted requests
MaxPending == 1
\* number of Sampler cycles that run during one handle_Sensor execution
MaxOverlap == 1
\* number of equal steps the 12-bit range of the ADC is cut into: analogRead
\* returns the counts at the ends of these steps
RawLevels == 1
\* the same for the cycle SpecADC starts with, in which one channel returns
\* any count of the range and the other the counts at the ends of these
\* steps: with 5 steps, the least count of each published value
FirstLevels == 5

----------------------------------------------------------------------------
(* Program constants *)

fine_wear == 36
coarse_wear == 39
ADC_MAX == 4095
ROWS == 20
PRIO_WEB == 2
PRIO_SENSOR == 4

Paths == {"/", "/csv", "/no_such_page"}
NoReq == "none"
NoResponse == [path |-> "none", status |-> 0, ctype |-> "none", body |-> <<>>]

\* the counts analogRead returns: of the counts 0 .. 4095 of the 12-bit
\* ADC, the ends of the RawLevels steps (with one step: 0 and 4095)
RawCounts == {(k * ADC_MAX) \div RawLevels : k \in 0 .. RawLevels}

\* the same for the cycle SpecADC starts with
FirstCounts == {(k * ADC_MAX) \div FirstLevels : k \in 0 .. FirstLevels}

----------------------------------------------------------------------------
(* Pure functions *)

\* a put that does not reach the cell
Share_put_lost(cell, v) == cell

\* Share<uint8_t>::put(v): the contents of the cell after the put
Share_put(cell, v) == v

\* Share<uint8_t>::get(): the value returned for a cell holding `cell`
Share_get(cell) == cell

\* the conversion rounding to the nearest integer
ToUint8_rounded(v) == (((v * 5) + (ADC_MAX \div 2)) \div ADC_MAX) % 256

\* float -> uint8_t conversion of raw * (5 / 4095.0) at the call of
\* Share<uint8_t>::put: truncation toward zero, modulo 2^8
ToUint8(v) == ((v * 5) \div ADC_MAX) % 256

Digit(d) == CASE d = 0 -> "0" [] d = 1 -> "1" [] d = 2 -> "2" [] d = 3 -> "3"
              [] d = 4 -> "4" [] d = 5 -> "5" [] d = 6 -> "6" [] d = 7 -> "7"
              [] d = 8 -> "8" [] d = 9 -> "9"

\* String(uint8_t): the decimal digits of n, most significant first
RECURSIVE DecStr(_)
DecStr(n) == IF n < 10 THEN <<Digit(n)>>
             ELSE DecStr(n \div 10) \o <<Digit(n % 10)>>

\* "Fine Voltage, Coarse Voltage\n", one character per element
Header == <<"F", "i", "n", "e", " ", "V", "o", "l", "t", "a", "g", "e", ",", " ", "C", "o", "a", "r", "s", "e", " ", "V", "o", "l", "t", "a", "g", "e", "\n">>

\* the text handle_DocumentRoot composes, one appended literal per element
LandingBody ==
    << "<!DOCTYPE html> <html>\n",
       "<head><meta name=\"viewport\" content=\"width=device-width,",
       " initial-scale=1.0, user-scalable=no\">\n<title> ",
       "ESP32 Web Server Test",
       "</title>\n",
       "<style>html { font-family: Helvetica; display: inline-block;",
       " margin: 0px auto; text-align: center;}\n",
       "body{margin-top: 50px;} h1 {color: #4444AA;margin: 50px auto 30px;}\n",
       "p {font-size: 24px;color: #222222;margin-bottom: 10px;}\n",
       "</style>\n</head>\n",
       "<body>\n<div id=\"webpage\">\n",
       "<h1>Oil Debri Testing Page</h1>\n",
       "<p><p> <a href=\"/csv\">Debri Test Data</a>\n",
       "</div>\n</body>\n</html>\n" >>

\* WebServer dispatch: the handler registered for the path, else the
\* not-found handler
Dispatch(path) == IF path \in DOMAIN routes THEN routes[path] ELSE notFound

----------------------------------------------------------------------------
(* The kernel's scheduler *)

TaskNames == {"loopTask", "task_webserver", "task_sensor"}

Exists(t) == t = "loopTask" \/ t \in DOMAIN tasks

\* the Arduino core runs setup() and loop() in its loop task, at priority 1;
\* the other tasks have the priority xTaskCreate was given
Prio(t) == IF t = "loopTask" THEN 1 ELSE tasks[t]

Blocked(t) == CASE t = "loopTask"       -> spc \in {"delay10", "delay100",
                                                      "delay1000"}
                [] t = "task_webserver" -> web_pc = "delay"
                [] t = "task_sensor"    -> sens_pc = "delay"

Ready(t) == Exists(t) /\ ~Blocked(t)

\* fixed-priority preemptive scheduling: a ready task runs when fewer than
\* `cores` ready tasks have a higher priority
CanRun(t) ==
    /\ Ready(t)
    /\ Cardinality({u \in TaskNames \ {t} : Ready(u) /\ Prio(u) > Prio(t)})
         < cores

InSensorHandler == web_pc \in {"h_fine", "h_coarse", "h_send"}

\* task_sensor has put to v_fine and not yet to v_coarse
SensorBetweenPuts ==
    /\ "task_sensor" \in DOMAIN tasks
    /\ sens_pc = "put_coarse"

\* task_sensor is in a cycle whose puts are not both done
SensorPublishing ==
    /\ "task_sensor" \in DOMAIN tasks
    /\ sens_pc \in {"read_fine", "read_coarse", "put_fine", "put_coarse"}

----------------------------------------------------------------------------
(* Initial state: the globals as constructed, no task made yet *)

InitProgram ==
    /\ spc = "serial_begin"
    /\ Serial = FALSE
    /\ pins = {}
    /\ wifi = "off"
    /\ tasks = << >>
    /\ v_fine = 0
    /\ v_coarse = 0
    /\ sens_pc = "read_fine"
    /\ voltage1 = 0
    /\ voltage2 = 0
    /\ web_pc = "on_root"
    /\ routes = << >>
    /\ notFound = "none"
    /\ listening = FALSE
    /\ pending = 0
    /\ cur = NoReq
    /\ IMU_str = << >>
    /\ index = 0
    /\ response = NoResponse
    /\ sent = 0
    /\ rows = << >>
    /\ lastPut = <<0, 0>>
    /\ gotFine = <<0, 0>>
    /\ gotCoarse = <<0, 0>>
    /\ hEntry = <<0, 0>>
    /\ hPub = <<0, 0>>
    /\ hCycles = 0
    /\ hWakes = 0
    /\ cycSeen = FALSE
    /\ puts = <<0, 0>>
    /\ failed = <<FALSE, FALSE>>
    /\ everPut = <<FALSE, FALSE>>
    /\ hAge = <<0, 0>>
    /\ rowAge = <<0, 0>>

\* a single CPU: the scheduling model the specification stipulates
Init == cores = 1 /\ InitProgram

\* either build of the kernel: one core, or two with the tasks free to run
\* on any core (xTaskCreate pins no task to a core)
InitSMP == cores \in {1, 2} /\ InitProgram

setupVars == <<spc, Serial, pins, wifi, tasks>>
cellVars == <<v_fine, v_coarse>>
sensorVars == <<sens_pc, voltage1, voltage2>>
serverVars == <<routes, notFound, listening>>
requestVars == <<pending, cur, response, sent>>
handlerVars == <<IMU_str, index>>
handlerHist == <<rows, gotFine, gotCoarse, hEntry>>
overlapHist == <<hPub, hCycles, hWakes, cycSeen>>
ageHist == <<hAge, rowAge>>

----------------------------------------------------------------------------
(* setup(): Bootstrap *)

\* Serial.begin (115200)
SetupSerialBegin ==
    /\ spc = "serial_begin" /\ CanRun("loopTask")
    /\ Serial' = TRUE
    /\ spc' = "wait_serial"
    /\ UNCHANGED <<cores, pins, wifi, tasks, cellVars, sensorVars, web_pc,
                   serverVars, requestVars, handlerVars, histVars>>

\* while (!Serial) delay(10);
SetupWaitSerial ==
    /\ spc = "wait_serial" /\ CanRun("loopTask")
    /\ spc' = IF Serial THEN "pin_fine" ELSE "delay10"
    /\ UNCHANGED <<cores, Serial, pins, wifi, tasks, cellVars, sensorVars,
                   web_pc, serverVars, requestVars, handlerVars, histVars>>

\* pinMode(fine_wear, INPUT)
SetupPinFine ==
    /\ spc = "pin_fine" /\ CanRun("loopTask")
    /\ pins' = pins \cup {fine_wear}
    /\ spc' = "pin_coarse"
    /\ UNCHANGED <<cores, Serial, wifi, tasks, cellVars, sensorVars, web_pc,
                   serverVars, requestVars, handlerVars, histVars>>

\* pinMode(coarse_wear, INPUT)
SetupPinCoarse ==
    /\ spc = "pin_coarse" /\ CanRun("loopTask")
    /\ pins' = pins \cup {coarse_wear}
    /\ spc' = "wifi"
    /\ UNCHANGED <<cores, Serial, wifi, tasks, cellVars, sensorVars, web_pc,
                   serverVars, requestVars, handlerVars, histVars>>

\* setup() going on to its delay(100) with no call of setup_wifi()
SetupWifi_skipped ==
    /\ spc = "wifi" /\ CanRun("loopTask")
    /\ spc' = "delay100"
    /\ UNCHANGED <<cores, Serial, pins, wifi, tasks, cellVars, sensorVars,
                   web_pc, serverVars, requestVars, handlerVars, histVars>>

\* setup_wifi(), built with USE_LAN undefined: the access point is brought
\* up; then delay(100) blocks the loop task
SetupWifi ==
    /\ spc = "wifi" /\ CanRun("loopTask")
    /\ wifi' = "ap"
    /\ spc' = "delay100"
    /\ UNCHANGED <<cores, Serial, pins, tasks, cellVars, sensorVars, web_pc,
                   serverVars, requestVars, handlerVars, histVars>>

\* setup_wifi(), built with USE_LAN defined: WiFi.begin (ssid, password)
SetupWifiBegin ==
    /\ spc = "wifi" /\ CanRun("loopTask")
    /\ wifi' = "connecting"
    /\ spc' = "wifi_status"
    /\ UNCHANGED <<cores, Serial, pins, tasks, cellVars, sensorVars, web_pc,
                   serverVars, requestVars, handlerVars, histVars>>

\* the status tested once: if (WiFi.status() != WL_CONNECTED)
SetupWifiStatus_once ==
    /\ spc = "wifi_status" /\ CanRun("loopTask")
    /\ spc' = "delay100"
    /\ UNCHANGED <<cores, Serial, pins, wifi, tasks, cellVars, sensorVars,
                   web_pc, serverVars, requestVars, handlerVars, histVars>>

\* while (WiFi.status() != WL_CONNECTED) { vTaskDelay (1000); ... }; when
\* connected setup_wifi returns and setup goes on to its delay(100)
SetupWifiStatus ==
    /\ spc = "wifi_status" /\ CanRun("loopTask")
    /\ spc' = IF wifi = "sta" THEN "delay100" ELSE "delay1000"
    /\ UNCHANGED <<cores, Serial, pins, wifi, tasks, cellVars, sensorVars,
                   web_pc, serverVars, requestVars, handlerVars, histVars>>

\* the station associates with the network (the environment)
WifiAssociates ==
    /\ wifi = "connecting"
    /\ wifi' = "sta"
    /\ UNCHANGED <<cores, spc, Serial, pins, tasks, cellVars, sensorVars,
                   web_pc, serverVars, requestVars, handlerVars, histVars>>

\* the tick that ends a delay() or vTaskDelay() of the loop task
SetupWake ==
    /\ spc \in {"delay10", "delay100", "delay1000"}
    /\ spc' = CASE spc = "delay10"   -> "wait_serial"
               [] spc = "delay100"  -> "create_web"
               [] spc = "delay1000" -> "wifi_status"
    /\ UNCHANGED <<cores, Serial, pins, wifi, tasks, cellVars, sensorVars,
                   web_pc, serverVars, requestVars, handlerVars, histVars>>

\* the two xTaskCreate calls in the other order: the Sampler made first
SetupCreateWeb_sensorFirst ==
    /\ spc = "create_web" /\ CanRun("loopTask")
    /\ tasks' = [t \in DOMAIN tasks \cup {"task_sensor"} |->
                   IF t = "task_sensor" THEN PRIO_SENSOR ELSE tasks[t]]
    /\ spc' = "create_sensor"
    /\ UNCHANGED <<cores, Serial, pins, wifi, cellVars, sensorVars, web_pc,
                   serverVars, requestVars, handlerVars, histVars>>

\* xTaskCreate (task_webserver, "Web Server", 8192, NULL, 2, NULL)
SetupCreateWeb ==
    /\ spc = "create_web" /\ CanRun("loopTask")
    /\ tasks' = [t \in DOMAIN tasks \cup {"task_webserver"} |->
                   IF t = "task_webserver" THEN PRIO_WEB ELSE tasks[t]]
    /\ spc' = "create_sensor"
    /\ UNCHANGED <<cores, Serial, pins, wifi, cellVars, sensorVars, web_pc,
                   serverVars, requestVars, handlerVars, histVars>>

\* the Sampler made with a priority below the Server's
SetupCreateSensor_lowPriority ==
    /\ spc = "create_sensor" /\ CanRun("loopTask")
    /\ tasks' = [t \in DOMAIN tasks \cup {"task_sensor"} |->
                   IF t = "task_sensor" THEN 1 ELSE tasks[t]]
    /\ spc' = "loop"
    /\ UNCHANGED <<cores, Serial, pins, wifi, cellVars, sensorVars, web_pc,
                   serverVars, requestVars, handlerVars, histVars>>

\* xTaskCreate (task_sensor, "Sensor", 4000, NULL, 4, NULL); setup returns
SetupCreateSensor ==
    /\ spc = "create_sensor" /\ CanRun("loopTask")
    /\ tasks' = [t \in DOMAIN tasks \cup {"task_sensor"} |->
                   IF t = "task_sensor" THEN PRIO_SENSOR ELSE tasks[t]]
    /\ spc' = "loop"
    /\ UNCHANGED <<cores, Serial, pins, wifi, cellVars, sensorVars, web_pc,
                   serverVars, requestVars, handlerVars, histVars>>

\* void loop (void) {}: the loop task calls it again and again; its body is
\* empty
Loop ==
    /\ spc = "loop" /\ CanRun("loopTask")
    /\ UNCHANGED vars

----------------------------------------------------------------------------
(* task_sensor: the Sampler *)

\* float voltage1 = analogRead(fine_wear) * (5 / 4095.0)
SensorReadFine ==
    /\ sens_pc = "read_fine" /\ CanRun("task_sensor")
    /\ \E raw \in RawCounts : voltage1' = raw
    /\ sens_pc' = "read_coarse"
    /\ puts' = <<0, 0>>
    /\ cycSeen' = FALSE
    /\ failed' = <<FALSE, FALSE>>
    /\ UNCHANGED <<cores, setupVars, cellVars, voltage2, web_pc, serverVars,
                   requestVars, handlerVars, handlerHist, lastPut, hPub,
                   hCycles, hWakes, everPut, ageHist>>

\* float voltage2 = analogRead(coarse_wear) * (5 / 4095.0)
SensorReadCoarse ==
    /\ sens_pc = "read_coarse" /\ CanRun("task_sensor")
    /\ \E raw \in RawCounts : voltage2' = raw
    /\ sens_pc' = "put_fine"
    /\ failed' = <<failed[1], FALSE>>
    /\ UNCHANGED <<cores, setupVars, cellVars, voltage1, web_pc, serverVars,
                   requestVars, handlerVars, handlerHist, overlapHist, lastPut,
                   puts, everPut, ageHist>>

\* analogRead(fine_wear) when the conversion fails: analogRead returns a
\* uint16_t and nothing else, so task_sensor gets a count all the same
SensorReadFineFailed ==
    /\ sens_pc = "read_fine" /\ CanRun("task_sensor")
    /\ \E raw \in RawCounts : voltage1' = raw
    /\ sens_pc' = "read_coarse"
    /\ puts' = <<0, 0>>
    /\ cycSeen' = FALSE
    /\ failed' = <<TRUE, FALSE>>
    /\ UNCHANGED <<cores, setupVars, cellVars, voltage2, web_pc, serverVars,
                   requestVars, handlerVars, handlerHist, lastPut, hPub,
                   hCycles, hWakes, everPut, ageHist>>

\* analogRead(coarse_wear) when the conversion fails
SensorReadCoarseFailed ==
    /\ sens_pc = "read_coarse" /\ CanRun("task_sensor")
    /\ \E raw \in RawCounts : voltage2' = raw
    /\ sens_pc' = "put_fine"
    /\ failed' = <<failed[1], TRUE>>
    /\ UNCHANGED <<cores, setupVars, cellVars, voltage1, web_pc, serverVars,
                   requestVars, handlerVars, handlerHist, overlapHist, lastPut,
                   puts, everPut, ageHist>>

\* v_fine.put(voltage1)
SensorPutFine ==
    /\ sens_pc = "put_fine" /\ CanRun("task_sensor")
    /\ v_fine' = Share_put(v_fine, ToUint8(voltage1))
    /\ sens_pc' = "put_coarse"
    /\ lastPut' = <<ToUint8(voltage1), lastPut[2]>>
    /\ puts' = <<puts[1] + 1, puts[2]>>
    /\ IF InSensorHandler
         THEN /\ hPub' = <<ToUint8(voltage1), hPub[2]>>
              /\ hCycles' = IF cycSeen THEN hCycles ELSE hCycles + 1
              /\ cycSeen' = TRUE
              /\ hAge' = <<hAge[1] + 1, hAge[2]>>
         ELSE UNCHANGED <<hPub, hCycles, cycSeen, hAge>>
    /\ everPut' = <<TRUE, everPut[2]>>
    /\ UNCHANGED <<cores, setupVars, v_coarse, voltage1, voltage2, web_pc,
                   serverVars, requestVars, handlerVars, handlerHist, hWakes,
                   failed, rowAge>>

\* the coarse voltage put into the fine cell: v_fine.put(voltage2)
SensorPutCoarse_fine ==
    /\ sens_pc = "put_coarse" /\ CanRun("task_sensor")
    /\ v_fine' = Share_put(v_fine, ToUint8(voltage2))
    /\ sens_pc' = "print"
    /\ lastPut' = <<ToUint8(voltage2), lastPut[2]>>
    /\ puts' = <<puts[1] + 1, puts[2]>>
    /\ IF InSensorHandler
         THEN /\ hPub' = <<hPub[1], ToUint8(voltage2)>>
              /\ hCycles' = IF cycSeen THEN hCycles ELSE hCycles + 1
              /\ cycSeen' = TRUE
              /\ hAge' = <<hAge[1] + 1, hAge[2]>>
         ELSE UNCHANGED <<hPub, hCycles, cycSeen, hAge>>
    /\ everPut' = <<TRUE, everPut[2]>>
    /\ UNCHANGED <<cores, setupVars, v_coarse, voltage1, voltage2, web_pc,
                   serverVars, requestVars, handlerVars, handlerHist, hWakes,
                   failed, rowAge>>

\* v_coarse.put(voltage2)
SensorPutCoarse ==
    /\ sens_pc = "put_coarse" /\ CanRun("task_sensor")
    /\ v_coarse' = Share_put(v_coarse, ToUint8(voltage2))
    /\ sens_pc' = "print"
    /\ lastPut' = <<lastPut[1], ToUint8(voltage2)>>
    /\ puts' = <<puts[1], puts[2] + 1>>
    /\ IF InSensorHandler
         THEN /\ hPub' = <<hPub[1], ToUint8(voltage2)>>
              /\ hCycles' = IF cycSeen THEN hCycles ELSE hCycles + 1
              /\ cycSeen' = TRUE
              /\ hAge' = <<hAge[1], hAge[2] + 1>>
         ELSE UNCHANGED <<hPub, hCycles, cycSeen, hAge>>
    /\ everPut' = <<everPut[1], TRUE>>
    /\ UNCHANGED <<cores, setupVars, v_fine, voltage1, voltage2, web_pc,
                   serverVars, requestVars, handlerVars, handlerHist, hWakes,
                   failed, rowAge>>

\* the loop body without its vTaskDelay(500): the task never blocks
SensorPrintDelay_noDelay ==
    /\ sens_pc = "print" /\ CanRun("task_sensor")
    /\ sens_pc' = "read_fine"
    /\ voltage1' = 0
    /\ voltage2' = 0
    /\ UNCHANGED <<cores, setupVars, cellVars, web_pc, serverVars,
                   requestVars, handlerVars, histVars>>

\* float sum = voltage1 + voltage2; the Serial.print calls; vTaskDelay(500).
\* voltage1 and voltage2 are locals of the loop body: they end with it
SensorPrintDelay ==
    /\ sens_pc = "print" /\ CanRun("task_sensor")
    /\ sens_pc' = "delay"
    /\ voltage1' = 0
    /\ voltage2' = 0
    /\ UNCHANGED <<cores, setupVars, cellVars, web_pc, serverVars,
                   requestVars, handlerVars, histVars>>

\* the tick that ends vTaskDelay(500) of task_sensor
SensorWake ==
    /\ sens_pc = "delay"
    /\ InSensorHandler => hWakes < MaxOverlap
    /\ sens_pc' = "read_fine"
    /\ hWakes' = IF InSensorHandler THEN hWakes + 1 ELSE hWakes
    /\ UNCHANGED <<cores, setupVars, cellVars, voltage1, voltage2, web_pc,
                   serverVars, requestVars, handlerVars, handlerHist, lastPut,
                   hPub, hCycles, cycSeen, puts, failed, everPut, ageHist>>

----------------------------------------------------------------------------
(* task_webserver: the Server, and the handlers it dispatches to *)

\* server.on ("/", handle_DocumentRoot)
WebOnRoot ==
    /\ web_pc = "on_root" /\ CanRun("task_webserver")
    /\ routes' = [p \in DOMAIN routes \cup {"/"} |->
                    IF p = "/" THEN "handle_DocumentRoot" ELSE routes[p]]
    /\ web_pc' = "on_csv"
    /\ UNCHANGED <<cores, setupVars, cellVars, sensorVars, notFound,
                   listening, requestVars, handlerVars, histVars>>

\* the CSV route registered with the landing handler
WebOnCsv_wrongHandler ==
    /\ web_pc = "on_csv" /\ CanRun("task_webserver")
    /\ routes' = [p \in DOMAIN routes \cup {"/csv"} |->
                    IF p = "/csv" THEN "handle_DocumentRoot" ELSE routes[p]]
    /\ web_pc' = "on_notfound"
    /\ UNCHANGED <<cores, setupVars, cellVars, sensorVars, notFound,
                   listening, requestVars, handlerVars, histVars>>

\* server.on ("/csv", handle_Sensor)
WebOnCsv ==
    /\ web_pc = "on_csv" /\ CanRun("task_webserver")
    /\ routes' = [p \in DOMAIN routes \cup {"/csv"} |->
                    IF p = "/csv" THEN "handle_Sensor" ELSE routes[p]]
    /\ web_pc' = "on_notfound"
    /\ UNCHANGED <<cores, setupVars, cellVars, sensorVars, notFound,
                   listening, requestVars, handlerVars, histVars>>

\* server.onNotFound (handle_NotFound)
WebOnNotFound ==
    /\ web_pc = "on_notfound" /\ CanRun("task_webserver")
    /\ notFound' = "handle_NotFound"
    /\ web_pc' = "begin"
    /\ UNCHANGED <<cores, setupVars, cellVars, sensorVars, routes, listening,
                   requestVars, handlerVars, histVars>>

\* server.begin () called before server.onNotFound
WebBegin_early ==
    /\ web_pc = "on_notfound" /\ CanRun("task_webserver")
    /\ ~listening
    /\ listening' = TRUE
    /\ UNCHANGED <<cores, setupVars, cellVars, sensorVars, web_pc, routes,
                   notFound, requestVars, handlerVars, histVars>>

\* server.begin (); Serial.println ("HTTP server started")
WebBegin ==
    /\ web_pc = "begin" /\ CanRun("task_webserver")
    /\ listening' = TRUE
    /\ web_pc' = "poll"
    /\ UNCHANGED <<cores, setupVars, cellVars, sensorVars, routes, notFound,
                   requestVars, handlerVars, histVars>>

\* a client connects to the listener (the environment)
Arrive ==
    /\ listening /\ wifi \in {"ap", "sta"}
    /\ pending < MaxPending
    /\ pending' = pending + 1
    /\ UNCHANGED <<cores, setupVars, cellVars, sensorVars, web_pc, serverVars,
                   cur, response, sent, handlerVars, histVars>>

\* server.handleClient (): with no client waiting it returns and the task
\* goes on to its vTaskDelay; else it accepts one client, reads the path of
\* its request and calls the handler the route table gives for it
WebHandleClient ==
    /\ web_pc = "poll" /\ CanRun("task_webserver")
    /\ IF pending = 0
         THEN /\ web_pc' = "vdelay"
              /\ UNCHANGED <<pending, cur, sent>>
         ELSE \E p \in Paths :
                /\ cur' = p
                /\ pending' = pending - 1
                /\ sent' = 0
                /\ web_pc' = Dispatch(p)
    /\ UNCHANGED <<cores, setupVars, cellVars, sensorVars, serverVars, response,
                   handlerVars, histVars>>

\* handle_DocumentRoot: compose the landing page, server.send (200, ...)
HandleDocumentRoot ==
    /\ web_pc = "handle_DocumentRoot" /\ CanRun("task_webserver")
    /\ response' = [path |-> cur, status |-> 200, ctype |-> "text/html",
                    body |-> LandingBody]
    /\ sent' = sent + 1
    /\ web_pc' = "vdelay"
    /\ UNCHANGED <<cores, setupVars, cellVars, sensorVars, serverVars,
                   pending, cur, handlerVars, histVars>>

\* handle_NotFound returning without a call of server.send
HandleNotFound_noSend ==
    /\ web_pc = "handle_NotFound" /\ CanRun("task_webserver")
    /\ web_pc' = "vdelay"
    /\ UNCHANGED <<cores, setupVars, cellVars, sensorVars, serverVars,
                   requestVars, handlerVars, histVars>>

\* handle_NotFound: server.send (404, "text/plain", "Not found")
HandleNotFound ==
    /\ web_pc = "handle_NotFound" /\ CanRun("task_webserver")
    /\ response' = [path |-> cur, status |-> 404, ctype |-> "text/plain",
                    body |-> <<"Not found">>]
    /\ sent' = sent + 1
    /\ web_pc' = "vdelay"
    /\ UNCHANGED <<cores, setupVars, cellVars, sensorVars, serverVars,
                   pending, cur, handlerVars, histVars>>

\* handle_Sensor, entry: String IMU_str = "Fine Voltage, Coarse Voltage\n";
\* uint8_t index = 0; index < 20
HandleSensorEntry ==
    /\ web_pc = "handle_Sensor" /\ CanRun("task_webserver")
    /\ IMU_str' = Header
    /\ index' = 0
    /\ web_pc' = IF 0 < ROWS THEN "h_fine" ELSE "h_send"
    /\ rows' = << >>
    /\ hEntry' = lastPut
    /\ hPub' = lastPut
    /\ hCycles' = 0
    /\ hWakes' = IF SensorPublishing THEN 1 ELSE 0
    /\ cycSeen' = FALSE
    /\ hAge' = IF SensorBetweenPuts THEN <<1, 0>> ELSE <<0, 0>>
    /\ rowAge' = <<0, 0>>
    /\ UNCHANGED <<cores, setupVars, cellVars, sensorVars, serverVars,
                   requestVars, lastPut, gotFine, gotCoarse, puts, failed,
                   everPut>>

\* a get that empties the cell it reads
HandleSensorFine_consume ==
    /\ web_pc = "h_fine" /\ CanRun("task_webserver")
    /\ IMU_str' = IMU_str \o DecStr(Share_get(v_fine)) \o <<",">>
    /\ v_fine' = Share_put(v_fine, 0)
    /\ web_pc' = "h_coarse"
    /\ gotFine' = <<Share_get(v_fine), lastPut[1]>>
    /\ rows' = Append(rows, <<Share_get(v_fine)>>)
    /\ rowAge' = <<hAge[1], rowAge[2]>>
    /\ UNCHANGED <<cores, setupVars, v_coarse, sensorVars, serverVars,
                   requestVars, index, lastPut, gotCoarse, hEntry,
                   overlapHist, puts, failed, everPut, hAge>>

\* IMU_str += String (v_fine.get()); IMU_str += ","
HandleSensorFine ==
    /\ web_pc = "h_fine" /\ CanRun("task_webserver")
    /\ IMU_str' = IMU_str \o DecStr(Share_get(v_fine)) \o <<",">>
    /\ web_pc' = "h_coarse"
    /\ gotFine' = <<Share_get(v_fine), lastPut[1]>>
    /\ rows' = Append(rows, <<Share_get(v_fine)>>)
    /\ rowAge' = <<hAge[1], rowAge[2]>>
    /\ UNCHANGED <<cores, setupVars, cellVars, sensorVars, serverVars,
                   requestVars, index, lastPut, gotCoarse, hEntry,
                   overlapHist, puts, failed, everPut, hAge>>

\* the loop bound off by one: index <= 20
HandleSensorCoarse_offByOne ==
    /\ web_pc = "h_coarse" /\ CanRun("task_webserver")
    /\ IMU_str' = IMU_str \o DecStr(Share_get(v_coarse)) \o <<"\n">>
    /\ index' = (index + 1) % 256
    /\ web_pc' = IF (index + 1) % 256 <= ROWS THEN "h_fine" ELSE "h_send"
    /\ gotCoarse' = <<Share_get(v_coarse), lastPut[2]>>
    /\ rows' = [rows EXCEPT ![Len(rows)] =
                  <<rows[Len(rows)][1], Share_get(v_coarse)>>]
    /\ rowAge' = <<rowAge[1], hAge[2]>>
    /\ UNCHANGED <<cores, setupVars, cellVars, sensorVars, serverVars,
                   requestVars, lastPut, gotFine, hEntry, overlapHist, puts,
                   failed, everPut, hAge>>

\* IMU_str += String (v_coarse.get()); IMU_str += "\n"; index++; index < 20
HandleSensorCoarse ==
    /\ web_pc = "h_coarse" /\ CanRun("task_webserver")
    /\ IMU_str' = IMU_str \o DecStr(Share_get(v_coarse)) \o <<"\n">>
    /\ index' = (index + 1) % 256
    /\ web_pc' = IF (index + 1) % 256 < ROWS THEN "h_fine" ELSE "h_send"
    /\ gotCoarse' = <<Share_get(v_coarse), lastPut[2]>>
    /\ rows' = [rows EXCEPT ![Len(rows)] =
                  <<rows[Len(rows)][1], Share_get(v_coarse)>>]
    /\ rowAge' = <<rowAge[1], hAge[2]>>
    /\ UNCHANGED <<cores, setupVars, cellVars, sensorVars, serverVars,
                   requestVars, lastPut, gotFine, hEntry, overlapHist, puts,
                   failed, everPut, hAge>>

\* server.send (404, "text/plain", IMU_str)
HandleSensorSend ==
    /\ web_pc = "h_send" /\ CanRun("task_webserver")
    /\ response' = [path |-> cur, status |-> 404, ctype |-> "text/plain",
                    body |-> IMU_str]
    /\ sent' = sent + 1
    /\ web_pc' = "vdelay"
    /\ UNCHANGED <<cores, setupVars, cellVars, sensorVars, serverVars,
                   pending, cur, handlerVars, histVars>>

\* the handler, if one was called, returns (its locals end) and
\* handleClient returns, the response written; then vTaskDelay (500)
WebDelay ==
    /\ web_pc = "vdelay" /\ CanRun("task_webserver")
    /\ web_pc' = "delay"
    /\ cur' = NoReq
    /\ response' = NoResponse
    /\ sent' = 0
    /\ IMU_str' = << >>
    /\ index' = 0
    /\ rows' = << >>
    /\ gotFine' = <<0, 0>>
    /\ gotCoarse' = <<0, 0>>
    /\ hEntry' = <<0, 0>>
    /\ hPub' = <<0, 0>>
    /\ hCycles' = 0
    /\ hWakes' = 0
    /\ hAge' = <<0, 0>>
    /\ rowAge' = <<0, 0>>
    /\ UNCHANGED <<cores, setupVars, cellVars, sensorVars, serverVars,
                   pending, lastPut, cycSeen, puts, failed, everPut>>

\* the tick that ends vTaskDelay (500) of task_webserver
WebWake ==
    /\ web_pc = "delay"
    /\ web_pc' = "poll"
    /\ UNCHANGED <<cores, setupVars, cellVars, sensorVars, serverVars,
                   requestVars, handlerVars, histVars>>

----------------------------------------------------------------------------
(* The specifications *)

SetupStep ==
    \/ SetupSerialBegin \/ SetupWaitSerial \/ SetupPinFine \/ SetupPinCoarse
    \/ SetupWifi \/ SetupCreateWeb \/ SetupCreateSensor

SensorStep ==
    \/ SensorReadFine \/ SensorReadCoarse \/ SensorPutFine \/ SensorPutCoarse
    \/ SensorPrintDelay

WebStep ==
    \/ WebOnRoot \/ WebOnCsv \/ WebOnNotFound \/ WebBegin \/ WebHandleClient
    \/ HandleDocumentRoot \/ HandleNotFound \/ HandleSensorEntry
    \/ HandleSensorFine \/ HandleSensorCoarse \/ HandleSensorSend \/ WebDelay

\* the steps that are the same whichever way setup_wifi is built
NextCommon ==
    \/ SetupSerialBegin \/ SetupWaitSerial \/ SetupPinFine \/ SetupPinCoarse
    \/ SetupWake \/ SetupCreateWeb \/ SetupCreateSensor \/ Loop
    \/ SensorReadFine \/ SensorReadCoarse \/ SensorPutFine \/ SensorPutCoarse
    \/ SensorPrintDelay \/ SensorWake
    \/ WebOnRoot \/ WebOnCsv \/ WebOnNotFound \/ WebBegin \/ Arrive
    \/ WebHandleClient \/ HandleDocumentRoot \/ HandleNotFound
    \/ HandleSensorEntry \/ HandleSensorFine \/ HandleSensorCoarse
    \/ HandleSensorSend \/ WebDelay \/ WebWake

\* the program as built: USE_LAN undefined, the board is the access point
Next == NextCommon \/ SetupWifi

\* the program built with USE_LAN defined: the board joins a network
NextLAN == NextCommon \/ SetupWifiBegin \/ SetupWifiStatus \/ WifiAssociates

\* the program on a single CPU
Spec == Init /\ [][Next]_vars

\* the program on one core or on two
SpecSMP == InitSMP /\ [][Next]_vars

\* the USE_LAN build on a single CPU
SpecLAN == Init /\ [][NextLAN]_vars

\* the program with an ADC whose conversions can fail
NextFault == Next \/ SensorReadFineFailed \/ SensorReadCoarseFailed

SpecFault == Init /\ [][NextFault]_vars

\* The first Sampler cycle at the point where both analogRead calls have
\* returned, on a single CPU: setup has returned, the Server task has
\* installed its routes, started the listener, polled once and is in its
\* delay.  The two channels are read independently: one of them has
\* returned any count of the 12-bit range and the other one of FirstCounts.
InitADC ==
    /\ cores = 1
    /\ spc = "loop"
    /\ Serial = TRUE
    /\ pins = {fine_wear, coarse_wear}
    /\ wifi = "ap"
    /\ tasks = [t \in {"task_webserver", "task_sensor"} |->
                  IF t = "task_sensor" THEN PRIO_SENSOR ELSE PRIO_WEB]
    /\ v_fine = 0
    /\ v_coarse = 0
    /\ sens_pc = "put_fine"
    /\ \/ /\ voltage1 \in 0 .. ADC_MAX
          /\ voltage2 \in FirstCounts
       \/ /\ voltage1 \in FirstCounts
          /\ voltage2 \in 0 .. ADC_MAX
    /\ web_pc = "delay"
    /\ routes = [p \in {"/", "/csv"} |->
                   IF p = "/" THEN "handle_DocumentRoot" ELSE "handle_Sensor"]
    /\ notFound = "handle_NotFound"
    /\ listening = TRUE
    /\ pending = 0
    /\ cur = NoReq
    /\ IMU_str = << >>
    /\ index = 0
    /\ response = NoResponse
    /\ sent = 0
    /\ rows = << >>
    /\ lastPut = <<0, 0>>
    /\ gotFine = <<0, 0>>
    /\ gotCoarse = <<0, 0>>
    /\ hEntry = <<0, 0>>
    /\ hPub = <<0, 0>>
    /\ hCycles = 0
    /\ hWakes = 0
    /\ cycSeen = FALSE
    /\ puts = <<0, 0>>
    /\ failed = <<FALSE, FALSE>>
    /\ everPut = <<FALSE, FALSE>>
    /\ hAge = <<0, 0>>
    /\ rowAge = <<0, 0>>

\* the program from there on: every step but those of setup and those the
\* Server task takes before its loop, which are over
NextADC ==
    \/ Loop
    \/ SensorReadFine \/ SensorReadCoarse \/ SensorPutFine \/ SensorPutCoarse
    \/ SensorPrintDelay \/ SensorWake
    \/ Arrive \/ WebWake \/ WebHandleClient \/ HandleDocumentRoot
    \/ HandleNotFound \/ HandleSensorEntry \/ HandleSensorFine
    \/ HandleSensorCoarse \/ HandleSensorSend \/ WebDelay

\* the program from a first Sampler cycle over every count of the ADC
SpecADC == InitADC /\ [][NextADC]_vars

\* What the kernel guarantees on a single CPU: a tick ends every delay; the
\* task of the highest priority that is ready runs; and, a Sampler cycle
\* being far shorter than the 500 ticks the Sampler then sleeps, the tasks
\* below it run again and again while it sleeps.
Fairness ==
    /\ WF_vars(SetupWake) /\ WF_vars(SensorWake) /\ WF_vars(WebWake)
    /\ WF_vars(SensorStep)
    /\ SF_vars(WebStep)
    /\ SF_vars(SetupStep)

\* the program on the single CPU the specification stipulates, with what
\* the kernel guarantees there; what holds on two cores is stated on
\* SpecSMP
FairSpecOneCPU == Init /\ [][Next]_vars /\ Fairness

----------------------------------------------------------------------------
(* Claims *)

\* The definitions below state the claims; they are not part of the model
\* of the program.

\* handle_Sensor has composed all its rows and sent the response
CsvDone == web_pc = "vdelay" /\ cur = "/csv"

\* C1: every get on v_fine or v_coarse returns the argument of the most
\* recent completed put on that same cell, or the initial value 0 when no
\* put was made yet: never another value.
C1_GetReturnsLastPut ==
    /\ gotFine[1] = gotFine[2]
    /\ gotCoarse[1] = gotCoarse[2]
    /\ Share_get(v_fine) = lastPut[1]
    /\ Share_get(v_coarse) = lastPut[2]

\* a get that followed a put of a value other than the initial one, made
\* while the handler was running, on two cores
C1_Witness ==
    /\ cores = 2
    /\ web_pc = "h_coarse"
    /\ gotFine = <<5, 5>>
    /\ hCycles = 1
    /\ hEntry[1] = 0

\* C2: all twenty rows of a /csv response carry the same pair, the cell
\* values as they were at the entry of the handler, also when the Sampler
\* publishes new values while the handler runs.
C2_RowsAreEntrySnapshot ==
    CsvDone =>
        /\ Len(rows) = ROWS
        /\ \A i \in 1 .. Len(rows) : rows[i] = hEntry

\* C3: when exactly one Sampler cycle (or none) publishes while
\* handle_Sensor runs, every row
\* shows in the fine column the fine value before the cycle or the one the
\* cycle published, and in the coarse column the coarse value before the
\* cycle or the one the cycle published, each column on its own.
C3_RowsPreOrPost ==
    (CsvDone /\ hCycles <= 1) =>
        \A i \in 1 .. Len(rows) :
            /\ rows[i][1] \in {hEntry[1], hPub[1]}
            /\ rows[i][2] \in {hEntry[2], hPub[2]}

\* a response with a row that pairs the fine value the cycle published with
\* the coarse value from before the cycle, and a later row with both new
C3_Witness ==
    /\ CsvDone /\ hCycles = 1
    /\ hEntry = <<0, 0>> /\ hPub = <<5, 5>>
    /\ \E i \in 1 .. Len(rows) : rows[i] = <<5, 0>>
    /\ rows[Len(rows)] = <<5, 5>>

\* the text of the data rows: per row the decimal digits of the fine value,
\* a comma, the decimal digits of the coarse value, a newline
RECURSIVE RowsText(_)
RowsText(rs) ==
    IF rs = << >> THEN << >>
    ELSE RowsText(SubSeq(rs, 1, Len(rs) - 1))
           \o DecStr(rs[Len(rs)][1]) \o <<",">>
           \o DecStr(rs[Len(rs)][2]) \o <<"\n">>

\* number of lines of a text: its newline characters
Lines(text) == Cardinality({i \in 1 .. Len(text) : text[i] = "\n"})

\* C4: the body of every /csv response is the header line followed by
\* exactly 20 data rows "<fine>,<coarse>\n" of the values got from the
\* cells: 21 lines in all.
C4_CsvBody ==
    CsvDone =>
        /\ Len(rows) = 20
        /\ response.body = Header \o RowsText(rows)
        /\ SubSeq(response.body, 1, Len(Header)) = Header
        /\ Lines(response.body) = 21
        /\ \A i \in 1 .. Len(rows) : rows[i][1] \in 0 .. 255
                                    /\ rows[i][2] \in 0 .. 255

\* a /csv response sent while the Sampler published during the handler
C4_Witness ==
    /\ CsvDone
    /\ hCycles = 1
    /\ Lines(response.body) = 21
    /\ rows[1] = <<0, 0>> /\ rows[20] = <<5, 5>>

\* the response the route table entry of a path must produce
Expected(path) ==
    CASE path = "/"    -> [status |-> 200, ctype |-> "text/html"]
      [] path = "/csv" -> [status |-> 404, ctype |-> "text/plain"]
      [] OTHER         -> [status |-> 404, ctype |-> "text/plain"]

Handler(path) ==
    CASE path = "/"    -> "handle_DocumentRoot"
      [] path = "/csv" -> "handle_Sensor"
      [] OTHER         -> "handle_NotFound"

HandlerPcs(h) ==
    IF h = "handle_Sensor" THEN {"handle_Sensor", "h_fine", "h_coarse", "h_send"}
    ELSE {h}

\* C5: a dispatched request for "/" is answered by the landing handler with
\* 200 text/html, one for "/csv" by the CSV handler with 404 text/plain, one
\* for any other path by the not-found handler with 404 text/plain and the
\* body "Not found"; each dispatched request gets exactly one response.
C5_Dispatch ==
    cur # NoReq =>
        /\ web_pc \in HandlerPcs(Handler(cur)) \cup {"vdelay"}
        /\ web_pc # "vdelay" => sent = 0 /\ response = NoResponse
        /\ web_pc = "vdelay" =>
             /\ sent = 1
             /\ response.path = cur
             /\ response.status = Expected(cur).status
             /\ response.ctype = Expected(cur).ctype
             /\ cur = "/" => response.body = LandingBody
             /\ cur = "/csv" => response.body = IMU_str
             /\ cur \notin {"/", "/csv"} => response.body = <<"Not found">>

\* a response to a request for a path that is in no route
C5_Witness ==
    /\ web_pc = "vdelay" /\ cur = "/no_such_page"
    /\ sent = 1
    /\ response.status = 404 /\ response.body = <<"Not found">>

\* C6: once setup has returned, exactly two tasks made by it exist, the
\* Sampler and the Server, and the Sampler's priority is the greater.
C6_TwoTasks ==
    spc = "loop" =>
        /\ DOMAIN tasks = {"task_webserver", "task_sensor"}
        /\ tasks["task_sensor"] > tasks["task_webserver"]

\* setup has returned and both tasks have run
C6_Witness ==
    /\ spc = "loop"
    /\ DOMAIN tasks = {"task_webserver", "task_sensor"}
    /\ sens_pc = "delay" /\ web_pc = "delay"

C8_RequestsAnswered ==
    /\ \/ []<><<WebHandleClient /\ cur' # NoReq>>_vars
       \/ <>[](pending = 0)
    /\ [][pending' < pending => (WebHandleClient /\ cur' # NoReq)]_vars
    /\ (cur # NoReq) ~> (web_pc = "vdelay" /\ sent = 1)
    /\ []<>(web_pc = "poll")

\* a request has been answered while another client waits and the Sampler
\* is in its delay
C8_Witness ==
    /\ web_pc = "vdelay" /\ sent = 1 /\ cur = "/csv"
    /\ pending = MaxPending
    /\ sens_pc = "delay" /\ hCycles = 1

\* C9: in every Sampler cycle exactly one put is made to the fine cell and
\* exactly one to the coarse cell, the fine one first, and both are done
\* before the delay of the cycle starts, so before the next cycle's reads.
C9_PutsPerCycle ==
    /\ sens_pc \in {"read_coarse", "put_fine"} => puts = <<0, 0>>
    /\ sens_pc = "put_coarse" => puts = <<1, 0>>
    /\ sens_pc \in {"print", "delay"} => puts = <<1, 1>>
    /\ sens_pc = "read_fine" => puts \in {<<0, 0>>, <<1, 1>>}

\* the Sampler is in the delay of a cycle that published to both cells
C9_Witness ==
    /\ sens_pc = "delay"
    /\ puts = <<1, 1>>
    /\ lastPut = <<5, 5>>

RoutesInstalled ==
    /\ DOMAIN routes = {"/", "/csv"}
    /\ routes["/"] = "handle_DocumentRoot"
    /\ routes["/csv"] = "handle_Sensor"
    /\ notFound = "handle_NotFound"

\* C10: the three routes are installed before the Server listens, no
\* request is dispatched before they are, and the route table does not
\* change once listening has begun.
C10_RoutesBeforeListen ==
    /\ [](listening => RoutesInstalled)
    /\ [](cur # NoReq => RoutesInstalled)
    /\ [][listening => (routes' = routes /\ notFound' = notFound)]_vars

\* a request is being handled, the listener and the three routes in place
C10_Witness ==
    /\ listening /\ RoutesInstalled
    /\ cur = "/csv" /\ web_pc = "h_send"

\* C11: each poll dispatches at most one waiting request; the handler of a
\* dispatched request runs to its end and its response is sent before the
\* Server task starts its delay, so before its next poll; a request is
\* dispatched only when no other is being handled: two handler executions
\* never overlap.
C11_OneDispatchPerPoll ==
    /\ [](web_pc \in {"poll", "delay"} => cur = NoReq)
    /\ [][pending' >= pending - 1]_vars
    /\ [][(cur' # cur /\ cur' # NoReq) =>
             (WebHandleClient /\ cur = NoReq /\ pending' = pending - 1)]_vars
    /\ [][(cur # NoReq /\ cur' = NoReq) =>
             (sent = 1 /\ response.path = cur /\ web_pc' = "delay")]_vars

\* the response to a request is sent and the handler at its end while the
\* next client already waits: it is not dispatched by this poll
C11_Witness ==
    /\ web_pc = "vdelay" /\ cur = "/no_such_page"
    /\ sent = 1 /\ response.path = cur
    /\ pending = MaxPending

\* C12: setup makes the debug serial ready, then configures both ADC pins
\* as inputs, then brings the wireless interface up, then makes the two
\* tasks, then returns; no Sampler cycle starts and the Server does nothing
\* before the wireless interface is up; once setup has returned the loop
\* task changes nothing: every change is a step of one of the two tasks, a
\* tick or a client.
C12_BootstrapOrder ==
    /\ [](pins # {} => Serial)
    /\ [](coarse_wear \in pins => fine_wear \in pins)
    /\ [](wifi # "off" => pins = {fine_wear, coarse_wear})
    /\ [](DOMAIN tasks # {} => wifi # "off")
    /\ [](spc = "loop" <=> DOMAIN tasks = {"task_webserver", "task_sensor"})
    /\ []((sens_pc # "read_fine" \/ web_pc # "on_root" \/ listening
            \/ cur # NoReq) => wifi # "off")
    /\ [][spc = "loop" =>
            (SensorStep \/ SensorWake \/ WebStep \/ WebWake \/ Arrive)]_vars

\* setup has returned, the interface is up, both pins are inputs, and both
\* tasks have gone through their loops while the loop task stays in loop()
C12_Witness ==
    /\ spc = "loop" /\ Serial /\ wifi = "ap"
    /\ pins = {fine_wear, coarse_wear}
    /\ puts = <<1, 1>> /\ sens_pc = "delay"
    /\ web_pc = "vdelay" /\ sent = 1

\* raw * 5 / 4095 truncated toward zero: the integer n with
\* n <= raw * 5 / 4095 < n + 1
Trunc(raw) ==
    CHOOSE n \in 0 .. 5 :
        n * ADC_MAX <= raw * 5 /\ raw * 5 < (n + 1) * ADC_MAX

\* C13: for every raw count 0..4095 the value published to a cell is
\* raw * 5 / 4095 truncated toward zero: 0 for count 0, 5 for count 4095,
\* never smaller for a greater count, the same for both channels; every
\* value a cell holds or a CSV row shows is an integer in 0..5.
C13_Conversion ==
    /\ sens_pc \in {"put_coarse", "print"} =>
          /\ v_fine = Trunc(voltage1)
          /\ voltage1 = 0 => v_fine = 0
          /\ voltage1 = ADC_MAX => v_fine = 5
    /\ sens_pc = "print" =>
          /\ v_coarse = Trunc(voltage2)
          /\ voltage1 <= voltage2 => v_fine <= v_coarse
          /\ voltage2 <= voltage1 => v_coarse <= v_fine
          /\ voltage1 = voltage2 => v_fine = v_coarse
    /\ v_fine \in 0 .. 5 /\ v_coarse \in 0 .. 5
    /\ \A i \in 1 .. Len(rows) :
          \A j \in 1 .. Len(rows[i]) : rows[i][j] \in 0 .. 5

\* the two counts on either side of a step of the conversion: 2456 is
\* published as 2, and 2457 (2457 * 5 = 3 * 4095) as 3
C13_Witness ==
    /\ sens_pc = "print"
    /\ voltage1 = 2456 /\ v_fine = 2
    /\ voltage2 = 2457 /\ v_coarse = 3

\* C14: when an ADC read fails in a Sampler cycle, the Sampler makes no put
\* of a value derived from that read: the cell of that channel keeps the
\* value it held, and the Sampler goes on to the rest of the cycle.
C14_FailedReadKeepsCell ==
    [][/\ (failed[1] /\ sens_pc = "put_fine" /\ sens_pc' # sens_pc) =>
            (v_fine' = v_fine /\ puts'[1] = puts[1])
       /\ (failed[2] /\ sens_pc = "put_coarse" /\ sens_pc' # sens_pc) =>
            (v_coarse' = v_coarse /\ puts'[2] = puts[2])]_vars

\* C15: data flows one way: only the Sampler's two puts change a cell; the
\* handlers, the Server loop, setup and loop leave both cells as they are;
\* and a get returns the value the get before it on the same cell returned
\* when no put to that cell came between the two.
C15_OnlySamplerPuts ==
    /\ [][v_fine' # v_fine => SensorPutFine]_vars
    /\ [][v_coarse' # v_coarse => SensorPutCoarse]_vars
    /\ [][(WebStep \/ WebWake \/ Arrive \/ SetupStep \/ SetupWake \/ Loop) =>
            UNCHANGED <<v_fine, v_coarse, lastPut, everPut>>]_vars
    /\ [][(HandleSensorFine /\ Len(rows) >= 1 /\ hAge[1] = rowAge[1]) =>
            gotFine'[1] = gotFine[1]]_vars
    /\ [][(HandleSensorCoarse /\ Len(rows) >= 2 /\ hAge[2] = rowAge[2]) =>
            gotCoarse'[1] = gotCoarse[1]]_vars

\* the handler has got the same values, not the initial ones, for two rows
\* in succession, no put having come between, after a Sampler cycle that
\* changed both cells during this handler
C15_Witness ==
    /\ web_pc = "h_fine" /\ Len(rows) >= 3
    /\ hEntry = <<0, 0>> /\ hAge = <<1, 1>> /\ rowAge = <<1, 1>>
    /\ rows[Len(rows)] = <<5, 5>>
    /\ rows[Len(rows) - 1] = <<5, 5>>
    /\ v_fine = 5 /\ v_coarse = 5

\* C16: in station mode setup stays in the association loop until the
\* interface reports connected, testing the status again after each delay
\* of 1000 ms, with no limit; as long as the interface is not connected
\* setup has not returned, no task is made, the listener is not started
\* and no request is accepted or answered.
C16_StationBlocks ==
    /\ [](wifi # "sta" =>
            /\ spc \notin {"delay100", "create_web", "create_sensor", "loop"}
            /\ DOMAIN tasks = {}
            /\ ~listening /\ pending = 0 /\ cur = NoReq
            /\ web_pc = "on_root" /\ sens_pc = "read_fine")
    /\ [][(spc = "wifi_status" /\ spc' # spc) =>
            spc' = IF wifi = "sta" THEN "delay100" ELSE "delay1000"]_vars
    /\ [][(spc = "delay1000" /\ spc' # spc) => spc' = "wifi_status"]_vars

\* the status was tested, the interface was not connected, and setup is in
\* the delay before the next test, no task made
C16_Witness ==
    /\ spc = "delay1000" /\ wifi = "connecting"
    /\ DOMAIN tasks = {}

\* C17: on a single CPU, the Sampler having the higher priority, the Server
\* task (so the CSV handler) takes no step between the Sampler's put to
\* the fine cell and its put to the coarse cell of the same cycle, and no
\* row pairs a fine value with a coarse value of an older cycle: the only
\* mixed row pairs an older fine value with a newer coarse value.
C17_NoNewFineOldCoarse ==
    /\ [][SensorBetweenPuts => ~WebStep]_vars
    /\ [](InSensorHandler => hAge[1] <= hAge[2] + 1)
    /\ []((InSensorHandler /\ ~SensorBetweenPuts) => hAge[1] = hAge[2])
    /\ []((web_pc # "h_coarse" /\ rows # << >>) => rowAge[1] <= rowAge[2])

\* a row just composed that pairs the fine value from before a Sampler
\* cycle with the coarse value that cycle published
C17_Witness ==
    /\ cores = 1
    /\ web_pc = "h_fine"
    /\ hEntry = <<0, 0>> /\ hPub = <<5, 5>>
    /\ rowAge = <<0, 1>>
    /\ rows[Len(rows)] = <<0, 5>>

\* C18, as claimed: within one /csv response, for each column the value of
\* a row is of a Sampler cycle no older than the value of the row before,
\* and within a row the coarse value is of a cycle no older than the fine
\* value's.
C18_AgeMonotone ==
    /\ [][(HandleSensorFine /\ Len(rows) >= 1) =>
            rowAge'[1] >= rowAge[1]]_vars
    /\ [][(HandleSensorCoarse /\ Len(rows) >= 2) =>
            rowAge'[2] >= rowAge[2]]_vars
    /\ []((web_pc # "h_coarse" /\ rows # << >>) => rowAge[1] <= rowAge[2])

\* C18, amended: within one /csv response, for each column the value of a
\* row is of a Sampler cycle no older than the value of the row before, on
\* one core or two; within a row the coarse value is of a cycle no older
\* than the fine value's when the tasks share a single CPU (on two cores
\* the handler can read both cells between the Sampler's two puts).
C18_AgeMonotoneColumns ==
    /\ [][(HandleSensorFine /\ Len(rows) >= 1) =>
            (rowAge'[1] >= rowAge[1] /\ rowAge'[1] = hAge[1])]_vars
    /\ [][(HandleSensorCoarse /\ Len(rows) >= 2) =>
            (rowAge'[2] >= rowAge[2] /\ rowAge'[2] = hAge[2])]_vars
    /\ []((cores = 1 /\ web_pc # "h_coarse" /\ rows # << >>) =>
            rowAge[1] <= rowAge[2])

\* a response on a single CPU whose rows go from the values before a
\* Sampler cycle to the values it published, each column in step
C18_Witness ==
    /\ cores = 1
    /\ CsvDone
    /\ rows[1] = <<0, 0>> /\ rows[ROWS] = <<5, 5>>
    /\ rowAge = <<1, 1>>
    /\ \E i \in 2 .. ROWS - 1 : rows[i] = <<0, 5>>

\* C19: setup makes the Server task before the Sampler task, so the
\* listener can start and a /csv request be dispatched before the Sampler
\* has made any put; in a /csv response composed before the first put to a
\* cell every row shows 0, the initial value, in the column of that cell.
C19_ServerBeforeSampler ==
    /\ "task_sensor" \in DOMAIN tasks => "task_webserver" \in DOMAIN tasks
    /\ ~everPut[1] => (v_fine = 0 /\ \A i \in 1 .. Len(rows) : rows[i][1] = 0)
    /\ ~everPut[2] =>
          /\ v_coarse = 0
          /\ \A i \in 1 .. Len(rows) : Len(rows[i]) = 2 => rows[i][2] = 0
    /\ (CsvDone /\ everPut = <<FALSE, FALSE>>) =>
          response.body = Header \o RowsText([i \in 1 .. ROWS |-> <<0, 0>>])

\* a /csv response of twenty rows "0,0" sent before the Sampler task is
\* made
C19_Witness ==
    /\ CsvDone /\ sent = 1
    /\ "task_sensor" \notin DOMAIN tasks
    /\ everPut = <<FALSE, FALSE>>
    /\ Len(rows) = ROWS
    /\ \A i \in 1 .. ROWS : rows[i] = <<0, 0>>

====
